---- MODULE Spec2Model ----
(***************************************************************************)
(* Model of the asynchronous video-generation job monitor of               *)
(* multimodal-generation/video-generation/python/amazon_video_util.py:     *)
(* the remote jobs, the object store, the local output tree and one        *)
(* single-threaded caller running the module's public operations.          *)
(*                                                                         *)
(* The output tree is keyed by job: get_folder_name_for_job names the      *)
(* folder <timestamp>_<id> and <id> is unique per job, so within one       *)
(* output root and one local timezone a job and its folder correspond      *)
(* one to one.                                                             *)
(*                                                                         *)
(* Further specifications of the module cover the output tree by path      *)
(* across process runs with different local timezones (SpecName, SpecPath),*)
(* the main() of the sample scripts 01, 02 and 03 (SpecScript), the        *)
(* retry loop of invoke_bedrock_model in the notebook application          *)
(* (SpecRetry), two monitor processes on one output tree (SpecWatch),      *)
(* the same with processes that are killed (SpecCrash), the termination of *)
(* the batch monitor under fairness (SpecLive), parse_url of the notebook  *)
(* application (SpecParse) and generate_images of the image generator     *)
(* (SpecImage).                                                            *)
(***************************************************************************)
EXTENDS Integers, Sequences, FiniteSets, TLC

\* ------------------------------------------------------------------ bounds
\* Operations one behaviour starts (each may be a fresh process run).
MaxOps == 3
\* Sleeps (10 s each) one monitor operation takes before the model stops it.
MaxSleeps == 2

\* ------------------------------------------------------------- vocabulary
Jobs == {"j1", "j2"}
NoJob == "nojob"

Statuses == {"Submitted", "InProgress", "Completed", "Failed"}
Terminal == {"Completed", "Failed"}

\* Python's None (a value of the kind of the paths returned), no exception,
\* and the content of a file that does not exist.
None == <<"None">>
NoExc == "none"
Absent == "absent"
\* A snapshot file holds the job dict it was given: the response of
\* get_async_invoke ("detail") or an entry of list_async_invokes ("summary").
Sources == {"detail", "summary"}

\* Submission instants, and the submit_time_after values a caller passes;
\* NoTime is the default None, which the `if submit_time_after:` tests skip.
SubmitTimes == {1, 2}
NoTime == 0
Filters == {NoTime, 1}

VARIABLES
    \* remote generation service and object store
    status,          \* job -> status the service reports
    s3HasMp4,        \* job -> the bucket lists an object <id>*.mp4
    submitTime,      \* job -> submitTime of the job
    \* local output tree, per job folder
    mp4,             \* job -> <id>.mp4 exists
    completedJson,   \* job -> content of completed.json, or Absent
    failedJson,      \* job -> content of failed.json, or Absent
    \* what has been done so far (observation of the calls made)
    listings,        \* job -> number of list_objects_v2 calls
    downloads,       \* job -> number of download_file calls
    completedWrites, \* job -> number of writes of completed.json
    failedWrites,    \* job -> number of writes of failed.json
    scCalls,         \* job -> calls of save_completed_job that returned
    sfCalls,         \* job -> calls of save_failed_job that returned
    errors,          \* logger.error lines of the running operation
    \* the caller
    pc,              \* position in the running operation
    op,              \* running operation
    arg,             \* its job handle (NoJob for monitor_and_download_videos)
    after,           \* submit_time_after of the call (NoTime: not given)
    outcome,         \* "none" while running, then "returned" or "raised"
    ret,             \* value returned
    exc,             \* exception raised
    lastStatus,      \* last status a get_async_invoke of this operation gave
    queries,         \* get_async_invoke calls of this operation
    sleeps,          \* time.sleep(10) calls of this operation
    sweeps,          \* completed sweeps of the pending list
    queue,           \* rest of the list the current for-loop iterates
    pending,         \* pending_job_arns
    toRemove,        \* job_arns_to_remove
    batch,           \* jobs the list calls of this operation returned
    handled,         \* jobs passed to save_completed_job / save_failed_job
    faulted,         \* job whose remote call or file write raised
    ops,             \* operations started
    \* the output tree by path, across process runs
    tzone,           \* UTC offset of the process's local timezone, in hours
    now,             \* the process's wall clock, in hours
    files,           \* paths of the files in the output root
    named,           \* folder names computed so far, with their inputs
    pathRet,         \* value the last save_completed_job returned
    pathJob,         \* job of the last save_completed_job call
    written,         \* the file writes so far: job, timezone of the run, path
    \* a sample script (01, 02 or 03) running its main()
    script,          \* the script
    spc,             \* position in main()
    arn1,            \* invocation_arn / invocation_arn_1
    arn2,            \* invocation_arn_2
    path1,           \* local_file_path / local_file_path_1
    path2,           \* local_file_path_2
    frame,           \* last_frame.png exists in the output directory
    exitCode,        \* exit status of the process (NotExited while it runs)
    calls,           \* the calls main() and generate_video have made, in order
    \* a model invocation with retry on throttling (utils.py)
    rfn,             \* the running function
    rpc,             \* position in its loop
    n_tries,         \* n_tries
    rhist,           \* what each attempt of this invocation met, in order
    slept,           \* seconds slept by this invocation
    rout,            \* how the invocation ended
    rlog,            \* the invocations that have ended
    \* monitor processes running save_completed_job side by side
    wpc,             \* watcher -> position in save_completed_job
    wjob,            \* watcher -> job of its running call
    wcalls,          \* watcher -> calls it has started
    wseen,           \* watcher -> jobs it has called save_completed_job for
    \* parse_url of the notebook application (utils.py)
    purl,            \* url
    ppc,             \* position in parse_url
    attempt,         \* attempt
    response,        \* response
    phist,           \* requests and sleeps of this call, in order
    presult,         \* how the call ended
    pret,            \* the text it returned
    \* BedrockImageGenerator.generate_images (amazon_image_gen.py)
    ipc,             \* position in generate_images
    iparams,         \* inference_params
    iservice,        \* what invoke_model will answer
    ifiles,          \* files of the output directory
    itrace,          \* steps of this call that were carried out, in order
    iexc,            \* exception in flight inside generate_images
    iraised,         \* exception the call raised to its caller
    iret             \* what the call returned

remoteVars == <<status, s3HasMp4, submitTime>>
diskVars == <<mp4, completedJson, failedJson>>
callVars == <<listings, downloads, completedWrites, failedWrites,
              scCalls, sfCalls, errors>>
procVars == <<pc, op, arg, after, outcome, ret, exc, lastStatus, queries, sleeps,
              sweeps, queue, pending, toRemove, batch, handled, faulted, ops>>
monitorVars == <<remoteVars, diskVars, callVars, procVars>>
pathVars == <<tzone, now, files, named, pathRet, pathJob, written>>
scriptVars == <<script, spc, arn1, arn2, path1, path2, frame, exitCode, calls>>
retryVars == <<rfn, rpc, n_tries, rhist, slept, rout, rlog>>
watchVars == <<wpc, wjob, wcalls, wseen>>
parseVars == <<purl, ppc, attempt, response, phist, presult, pret>>
imageVars == <<ipc, iparams, iservice, ifiles, itrace, iexc, iraised, iret>>
otherVars == <<pathVars, scriptVars, retryVars, watchVars, parseVars,
               imageVars>>
vars == <<monitorVars, otherVars>>

\* No job named yet, no file written by path.
NoPathJob == [arn |-> <<>>, submit |-> 0, found |-> FALSE]

PathIdle ==
    /\ tzone = 0
    /\ now = 0
    /\ files = {}
    /\ named = {}
    /\ pathRet = <<"None">>
    /\ pathJob = NoPathJob
    /\ written = {}

\* Python's None among the strings a script holds.
NoneStr == "None"
NotExited == -1

\* No script running.
ScriptIdle ==
    /\ script = "none"
    /\ spc = "exit"
    /\ arn1 = NoneStr
    /\ arn2 = NoneStr
    /\ path1 = NoneStr
    /\ path2 = NoneStr
    /\ frame = FALSE
    /\ exitCode = NotExited
    /\ calls = <<>>

\* No model invocation running.
RetryIdle ==
    /\ rfn = "none"
    /\ rpc = "idle"
    /\ n_tries = 0
    /\ rhist = <<>>
    /\ slept = 0
    /\ rout = "none"
    /\ rlog = <<>>

\* The monitor processes that watch the same output tree.
Watchers == {"w1", "w2"}

\* No watcher inside save_completed_job.
WatchIdle ==
    /\ wpc = [w \in Watchers |-> "idle"]
    /\ wjob = [w \in Watchers |-> "nojob"]
    /\ wcalls = [w \in Watchers |-> 0]
    /\ wseen = [w \in Watchers |-> {}]

\* The answer parse_url has before its first request: `response` is unbound.
NoResponse == [status |-> 0, text |-> <<"none", 0>>]

\* No parse_url call running.
ParseIdle ==
    /\ purl = "none"
    /\ ppc = "idle"
    /\ attempt = 0
    /\ response = NoResponse
    /\ phist = <<>>
    /\ presult = "none"
    /\ pret = NoResponse.text

\* The files generate_images writes into the output directory.
ImageFiles == {"request.json", "response_metadata.json", "response_body.json",
               "error_response.json"}

\* No generate_images call running, no file written.
ImageIdle ==
    /\ ipc = "idle"
    /\ iparams = "none"
    /\ iservice = "none"
    /\ ifiles = [f \in ImageFiles |-> "absent"]
    /\ itrace = <<>>
    /\ iexc = "none"
    /\ iraised = "none"
    /\ iret = "none"

\* ---------------------------------------------------------------- helpers
\* All orders in which a list call may return the jobs of a set.
RECURSIVE Orders(_)
Orders(S) ==
    IF S = {} THEN {<<>>}
    ELSE UNION {{<<j>> \o q : q \in Orders(S \ {j})} : j \in S}

Range(q) == {q[i] : i \in 1..Len(q)}

RemoveAll_none(q, rm) == q

\* list.remove(x) for every x of rm, on a list without duplicates.
RECURSIVE RemoveAll(_, _)
RemoveAll(q, rm) ==
    IF q = <<>> THEN <<>>
    ELSE IF Head(q) \in rm THEN RemoveAll(Tail(q), rm)
    ELSE <<Head(q)>> \o RemoveAll(Tail(q), rm)

Inc(f, j) == [f EXCEPT ![j] = @ + 1]

\* os.path.join(<root>/<folder>, <id>.mp4): the artifact path of job j.
VideoPath(j) == <<"mp4", j>>

\* ------------------------------------------------- artifact persistence
is_video_downloaded_never(j) == FALSE

\* is_video_downloaded_for_invocation_job: os.path.exists(<folder>/<id>.mp4).
is_video_downloaded_for_invocation_job(j) == mp4[j]

\* download_video_for_invocation_arn: one listing of the bucket by the id
\* prefix; the first key ending in .mp4 is downloaded to <folder>/<id>.mp4 and
\* its path returned; with no such key an error is logged and the function
\* falls off its end (None).
DownloadFound(j) == s3HasMp4[j]

DownloadResult_always(j) == VideoPath(j)

DownloadResult(j) == IF DownloadFound(j) THEN VideoPath(j) ELSE None

download_video_for_invocation_arn_once(j) ==
    /\ listings' = IF listings[j] = 0 THEN Inc(listings, j) ELSE listings
    /\ IF DownloadFound(j)
       THEN /\ downloads' = Inc(downloads, j)
            /\ mp4' = [mp4 EXCEPT ![j] = TRUE]
            /\ errors' = errors
       ELSE /\ downloads' = downloads
            /\ mp4' = mp4
            /\ errors' = errors \cup {<<"NoMp4InS3", j>>}

download_video_for_invocation_arn(j) ==
    /\ listings' = Inc(listings, j)
    /\ IF DownloadFound(j)
       THEN /\ downloads' = Inc(downloads, j)
            /\ mp4' = [mp4 EXCEPT ![j] = TRUE]
            /\ errors' = errors
       ELSE /\ downloads' = downloads
            /\ mp4' = mp4
            /\ errors' = errors \cup {<<"NoMp4InS3", j>>}

\* Value save_completed_job returns, from the state it is called in: a bare
\* return when the video is already there, else what the download returned.
SaveCompletedResult(j) ==
    IF is_video_downloaded_for_invocation_job(j) THEN None ELSE DownloadResult(j)

save_completed_job_rewrites(j, src) ==
    /\ scCalls' = Inc(scCalls, j)
    /\ UNCHANGED <<failedJson, failedWrites, sfCalls>>
    /\ completedJson' = [completedJson EXCEPT ![j] = src]
    /\ completedWrites' = Inc(completedWrites, j)
    /\ IF is_video_downloaded_for_invocation_job(j)
       THEN UNCHANGED <<mp4, listings, downloads, errors>>
       ELSE download_video_for_invocation_arn(j)

\* save_completed_job(job): skip when the video file exists; otherwise
\* download, then write completed.json whatever the download gave.
save_completed_job(j, src) ==
    /\ scCalls' = Inc(scCalls, j)
    /\ UNCHANGED <<failedJson, failedWrites, sfCalls>>
    /\ IF is_video_downloaded_for_invocation_job(j)
       THEN UNCHANGED <<mp4, completedJson, listings, downloads,
                        completedWrites, errors>>
       ELSE /\ download_video_for_invocation_arn(j)
            /\ completedJson' = [completedJson EXCEPT ![j] = src]
            /\ completedWrites' = Inc(completedWrites, j)

FailedAlreadySaved_never(j) == FALSE

\* save_failed_job(job): skip when failed.json exists; otherwise write it.
FailedAlreadySaved(j) == failedJson[j] # Absent

save_failed_job(j, src) ==
    /\ sfCalls' = Inc(sfCalls, j)
    /\ UNCHANGED <<mp4, completedJson, listings, downloads, completedWrites,
                   scCalls, errors>>
    /\ IF FailedAlreadySaved(j)
       THEN UNCHANGED <<failedJson, failedWrites>>
       ELSE /\ failedJson' = [failedJson EXCEPT ![j] = src]
            /\ failedWrites' = Inc(failedWrites, j)

\* ------------------------------------------------------------ the caller
Return(v) ==
    /\ pc' = "done"
    /\ outcome' = "returned"
    /\ ret' = v
    /\ exc' = NoExc

Raise(e) ==
    /\ pc' = "done"
    /\ outcome' = "raised"
    /\ ret' = None
    /\ exc' = e

\* A call starts with fresh locals (Finish cleared them).
Begin(o, j) ==
    /\ pc = "idle"
    /\ ops < MaxOps
    /\ ops' = ops + 1
    /\ op' = o
    /\ arg' = j
    /\ UNCHANGED <<lastStatus, queries, sleeps, sweeps, queue, pending,
                   toRemove, batch, faulted>>

NoFilter == after' = NoTime

Running(at) ==
    /\ pc' = at
    /\ UNCHANGED <<outcome, ret, exc>>

Query(j) ==
    /\ lastStatus' = status[j]
    /\ queries' = queries + 1

\* --------------------------------- monitor_and_download_video (one job)
CallMonitorOne(j) ==
    /\ Begin("monitor_and_download_video", j)
    /\ NoFilter
    /\ Running("one_query")
    /\ UNCHANGED <<otherVars, remoteVars, diskVars, callVars, handled>>

\* monitor_and_download_video: the first status query and its three branches.
\* Only the Completed branch and the in-progress branch bind local_file_path,
\* so the return statement after the Failed branch raises UnboundLocalError.
MonitorOneFirstQuery ==
    /\ pc = "one_query"
    /\ Query(arg)
    /\ UNCHANGED <<otherVars, remoteVars, op, arg, after, sleeps, sweeps, queue, pending,
                   toRemove, batch, faulted, ops>>
    /\ IF status[arg] = "Completed"
       THEN /\ save_completed_job(arg, "detail")
            /\ handled' = handled \cup {arg}
            /\ Return(SaveCompletedResult(arg))
       ELSE IF status[arg] = "Failed"
       THEN /\ save_failed_job(arg, "detail")
            /\ handled' = handled \cup {arg}
            /\ Raise("UnboundLocalError")
       ELSE /\ Running("inprog_query")
            /\ UNCHANGED <<diskVars, callVars, handled>>

KeepPolling_never(s) == FALSE

\* The loop test of monitor_and_download_in_progress_video.
KeepPolling(s) == s = "InProgress"

\* monitor_and_download_in_progress_video: a status query (the one before the
\* loop or the one at the end of its body), the loop test, and on leaving the
\* loop the branches on the status; its value is what
\* monitor_and_download_video returns.
InProgressQuery ==
    /\ pc = "inprog_query"
    /\ Query(arg)
    /\ UNCHANGED <<otherVars, remoteVars, op, arg, after, sleeps, sweeps, queue, pending,
                   toRemove, batch, faulted, ops>>
    /\ IF KeepPolling(status[arg])
       THEN /\ Running("one_sleep")
            /\ UNCHANGED <<diskVars, callVars, handled>>
       ELSE IF status[arg] = "Completed"
       THEN /\ save_completed_job(arg, "detail")
            /\ handled' = handled \cup {arg}
            /\ Return(SaveCompletedResult(arg))
       ELSE IF status[arg] = "Failed"
       THEN /\ save_failed_job(arg, "detail")
            /\ handled' = handled \cup {arg}
            /\ Return(None)
       ELSE /\ errors' = errors \cup {<<"UnexpectedStatus", arg>>}
            /\ UNCHANGED <<diskVars, listings, downloads, completedWrites,
                           failedWrites, scCalls, sfCalls, handled>>
            /\ Return(None)

InProgressSleep_twice ==
    /\ pc = "one_sleep"
    /\ sleeps < MaxSleeps
    /\ sleeps' = sleeps + 2
    /\ Running("inprog_query")
    /\ UNCHANGED <<otherVars, remoteVars, diskVars, callVars, op, arg, after, lastStatus, queries, sweeps, queue, pending, toRemove,
                   batch, handled, faulted, ops>>

\* The loop body: log_job_progress, time.sleep(10).
InProgressSleep ==
    /\ pc = "one_sleep"
    /\ sleeps < MaxSleeps
    /\ sleeps' = sleeps + 1
    /\ Running("inprog_query")
    /\ UNCHANGED <<otherVars, remoteVars, diskVars, callVars, op, arg, after, lastStatus, queries, sweeps, queue, pending, toRemove,
                   batch, handled, faulted, ops>>

\* ----------------------------- direct calls of the persistence functions
\* Every caller in the repository passes save_completed_job a job the service
\* reported Completed, and save_failed_job one it reported Failed.
CallSaveCompleted(j, src) ==
    /\ status[j] = "Completed"
    /\ Begin("save_completed_job", j)
    /\ NoFilter
    /\ save_completed_job(j, src)
    /\ handled' = handled \cup {j}
    /\ Return(SaveCompletedResult(j))
    /\ UNCHANGED <<otherVars, remoteVars>>

CallSaveFailed(j, src) ==
    /\ status[j] = "Failed"
    /\ Begin("save_failed_job", j)
    /\ NoFilter
    /\ save_failed_job(j, src)
    /\ handled' = handled \cup {j}
    /\ Return(None)
    /\ UNCHANGED <<otherVars, remoteVars>>

\* ------------------------------ monitor_and_download_videos (all jobs)
\* list_async_invokes(statusEquals=s[, submitTimeAfter=t]): the jobs of that
\* status (submitted after t, when given), in an order the service chooses.
ListByStatus(s, t) ==
    Orders({j \in Jobs : status[j] = s /\ (t = NoTime \/ submitTime[j] > t)})

\* The arguments of the three list calls: the Failed and the Completed
\* listing pass submit_time_after on when it is given, the in-progress
\* listing is called with the status alone.
ListFailedJobs_completed == ListByStatus("Completed", after)

ListFailedJobs == ListByStatus("Failed", after)
ListCompletedJobs == ListByStatus("Completed", after)
ListInProgressJobs == ListByStatus("InProgress", NoTime)

CallMonitorMany(t) ==
    /\ Begin("monitor_and_download_videos", NoJob)
    /\ after' = t
    /\ Running("list_failed")
    /\ UNCHANGED <<otherVars, remoteVars, diskVars, callVars, handled>>

\* monitor_and_download_in_progress_videos is also callable on its own.
CallMonitorInProgress ==
    /\ Begin("monitor_and_download_in_progress_videos", NoJob)
    /\ NoFilter
    /\ Running("list_in_progress")
    /\ UNCHANGED <<otherVars, remoteVars, diskVars, callVars, handled>>

\* failed_jobs = list_async_invokes(statusEquals="Failed")
ListFailed ==
    /\ pc = "list_failed"
    /\ \E q \in ListFailedJobs :
         /\ queue' = q
         /\ batch' = batch \cup Range(q)
         /\ Running(IF q = <<>> THEN "list_completed" ELSE "failed_loop")
    /\ UNCHANGED <<otherVars, remoteVars, diskVars, callVars, op, arg, after, lastStatus,
                   queries, sleeps, sweeps, pending, toRemove, handled,
                   faulted, ops>>

SaveFailedListed_first ==
    /\ pc = "failed_loop"
    /\ queue # <<>>
    /\ save_failed_job(Head(queue), "summary")
    /\ handled' = handled \cup {Head(queue)}
    /\ queue' = <<>>
    /\ Running("list_completed")
    /\ UNCHANGED <<otherVars, remoteVars, op, arg, after, lastStatus, queries, sleeps, sweeps,
                   pending, toRemove, batch, faulted, ops>>

\* for job in failed_jobs: save_failed_job(job)
SaveFailedListed ==
    /\ pc = "failed_loop"
    /\ queue # <<>>
    /\ save_failed_job(Head(queue), "summary")
    /\ handled' = handled \cup {Head(queue)}
    /\ queue' = Tail(queue)
    /\ Running(IF Tail(queue) = <<>> THEN "list_completed" ELSE "failed_loop")
    /\ UNCHANGED <<otherVars, remoteVars, op, arg, after, lastStatus, queries, sleeps, sweeps,
                   pending, toRemove, batch, faulted, ops>>

\* completed_jobs = list_async_invokes(statusEquals="Completed")
ListCompleted ==
    /\ pc = "list_completed"
    /\ \E q \in ListCompletedJobs :
         /\ queue' = q
         /\ batch' = batch \cup Range(q)
         /\ Running(IF q = <<>> THEN "list_in_progress" ELSE "completed_loop")
    /\ UNCHANGED <<otherVars, remoteVars, diskVars, callVars, op, arg, after, lastStatus,
                   queries, sleeps, sweeps, pending, toRemove, handled,
                   faulted, ops>>

\* for job in completed_jobs: save_completed_job(job)
SaveCompletedListed ==
    /\ pc = "completed_loop"
    /\ queue # <<>>
    /\ save_completed_job(Head(queue), "summary")
    /\ handled' = handled \cup {Head(queue)}
    /\ queue' = Tail(queue)
    /\ Running(IF Tail(queue) = <<>> THEN "list_in_progress"
               ELSE "completed_loop")
    /\ UNCHANGED <<otherVars, remoteVars, op, arg, after, lastStatus, queries, sleeps, sweeps,
                   pending, toRemove, batch, faulted, ops>>

ListInProgress_sleeps ==
    /\ pc = "list_in_progress"
    /\ \E q \in ListInProgressJobs :
         /\ pending' = q
         /\ queue' = q
         /\ batch' = batch \cup Range(q)
         /\ IF q = <<>> THEN Return(None) /\ sleeps' = sleeps + 1
            ELSE Running("sweep") /\ sleeps' = sleeps
    /\ toRemove' = <<>>
    /\ UNCHANGED <<otherVars, remoteVars, diskVars, callVars, op, arg, after, lastStatus,
                   queries, sweeps, handled, faulted, ops>>

\* monitor_and_download_in_progress_videos: the listing of the in-progress
\* jobs and the first test of `while pending_job_arns`.
ListInProgress ==
    /\ pc = "list_in_progress"
    /\ \E q \in ListInProgressJobs :
         /\ pending' = q
         /\ queue' = q
         /\ batch' = batch \cup Range(q)
         /\ IF q = <<>> THEN Return(None) ELSE Running("sweep")
    /\ toRemove' = <<>>
    /\ UNCHANGED <<otherVars, remoteVars, diskVars, callVars, op, arg, after, lastStatus,
                   queries, sleeps, sweeps, handled, faulted, ops>>

SweepTerminal_never(s) == FALSE

\* The branch of the sweep on a job's status.
SweepTerminal(s) == s \in {"Completed", "Failed"}

\* One iteration of `for job_arn in pending_job_arns`.
SweepQuery ==
    /\ pc = "sweep"
    /\ queue # <<>>
    /\ Query(Head(queue))
    /\ queue' = Tail(queue)
    /\ Running(IF Tail(queue) = <<>> THEN "sweep_end" ELSE "sweep")
    /\ UNCHANGED <<otherVars, remoteVars, op, arg, after, sleeps, sweeps, pending, batch,
                   faulted, ops>>
    /\ IF SweepTerminal(status[Head(queue)])
       THEN /\ IF status[Head(queue)] = "Completed"
               THEN save_completed_job(Head(queue), "detail")
               ELSE save_failed_job(Head(queue), "detail")
            /\ handled' = handled \cup {Head(queue)}
            /\ toRemove' = Append(toRemove, Head(queue))
       ELSE UNCHANGED <<diskVars, callVars, handled, toRemove>>

SweepEnd_no_last_sleep ==
    /\ pc = "sweep_end"
    /\ sleeps < MaxSleeps
    /\ sweeps' = sweeps + 1
    /\ pending' = RemoveAll(pending, Range(toRemove))
    /\ sleeps' = IF pending' = <<>> THEN sleeps ELSE sleeps + 1
    /\ queue' = pending'
    /\ toRemove' = <<>>
    /\ IF pending' = <<>> THEN Return(None) ELSE Running("sweep")
    /\ UNCHANGED <<otherVars, remoteVars, diskVars, callVars, op, arg, after, lastStatus,
                   queries, batch, handled, faulted, ops>>

\* The end of a sweep: the removals, time.sleep(10), and the loop test.
SweepEnd ==
    /\ pc = "sweep_end"
    /\ sleeps < MaxSleeps
    /\ sleeps' = sleeps + 1
    /\ sweeps' = sweeps + 1
    /\ pending' = RemoveAll(pending, Range(toRemove))
    /\ queue' = pending'
    /\ toRemove' = <<>>
    /\ IF pending' = <<>> THEN Return(None) ELSE Running("sweep")
    /\ UNCHANGED <<otherVars, remoteVars, diskVars, callVars, op, arg, after, lastStatus,
                   queries, batch, handled, faulted, ops>>

\* The operation is over; the caller (or a new process run) goes on.
Finish ==
    /\ pc = "done"
    /\ pc' = "idle"
    /\ op' = "none"
    /\ arg' = NoJob
    /\ after' = NoTime
    /\ outcome' = "none"
    /\ ret' = None
    /\ exc' = NoExc
    /\ lastStatus' = "none"
    /\ queries' = 0
    /\ sleeps' = 0
    /\ sweeps' = 0
    /\ queue' = <<>>
    /\ pending' = <<>>
    /\ toRemove' = <<>>
    /\ batch' = {}
    /\ handled' = {}
    /\ faulted' = NoJob
    /\ errors' = {}
    /\ UNCHANGED <<otherVars, remoteVars, diskVars, listings, downloads, completedWrites,
                   failedWrites, scCalls, sfCalls, ops>>

\* ------------------------------------------------- the remote service
\* Submitted -> InProgress -> {Completed, Failed}; terminal statuses stay.
RemoteAdvance(j) ==
    /\ \/ status[j] = "Submitted" /\ status' = [status EXCEPT ![j] = "InProgress"]
       \/ status[j] = "InProgress" /\ status' = [status EXCEPT ![j] = "Completed"]
       \/ status[j] = "InProgress" /\ status' = [status EXCEPT ![j] = "Failed"]
    /\ UNCHANGED <<otherVars, s3HasMp4, submitTime, diskVars, callVars, procVars>>

\* ------------------------------------------------------- specification
MonitorInit ==
    /\ status = [j \in Jobs |-> "Submitted"]
    /\ s3HasMp4 \in [Jobs -> BOOLEAN]
    /\ submitTime \in [Jobs -> SubmitTimes]
    /\ mp4 = [j \in Jobs |-> FALSE]
    /\ completedJson = [j \in Jobs |-> Absent]
    /\ failedJson = [j \in Jobs |-> Absent]
    /\ listings = [j \in Jobs |-> 0]
    /\ downloads = [j \in Jobs |-> 0]
    /\ completedWrites = [j \in Jobs |-> 0]
    /\ failedWrites = [j \in Jobs |-> 0]
    /\ scCalls = [j \in Jobs |-> 0]
    /\ sfCalls = [j \in Jobs |-> 0]
    /\ errors = {}
    /\ pc = "idle"
    /\ op = "none"
    /\ arg = NoJob
    /\ after = NoTime
    /\ outcome = "none"
    /\ ret = None
    /\ exc = NoExc
    /\ lastStatus = "none"
    /\ queries = 0
    /\ sleeps = 0
    /\ sweeps = 0
    /\ queue = <<>>
    /\ pending = <<>>
    /\ toRemove = <<>>
    /\ batch = {}
    /\ handled = {}
    /\ faulted = NoJob
    /\ ops = 0

Init ==
    /\ MonitorInit
    /\ PathIdle
    /\ ScriptIdle
    /\ RetryIdle
    /\ WatchIdle
    /\ ParseIdle
    /\ ImageIdle

Next ==
    \/ \E j \in Jobs : CallMonitorOne(j)
    \/ MonitorOneFirstQuery
    \/ InProgressQuery
    \/ InProgressSleep
    \/ \E j \in Jobs, src \in Sources : CallSaveCompleted(j, src)
    \/ \E j \in Jobs, src \in Sources : CallSaveFailed(j, src)
    \/ \E t \in Filters : CallMonitorMany(t)
    \/ CallMonitorInProgress
    \/ ListFailed
    \/ SaveFailedListed
    \/ ListCompleted
    \/ SaveCompletedListed
    \/ ListInProgress
    \/ SweepQuery
    \/ SweepEnd
    \/ Finish
    \/ \E j \in Jobs : RemoteAdvance(j)

Spec == Init /\ [][Next]_vars

\* ------------------------------------------------ failing remote calls
\* None of the monitor functions has a try/except: an exception of a boto3
\* call or of a file write leaves the running operation through every frame.

\* The job the current step of the operation is about.
StepJob ==
    IF pc \in {"one_query", "inprog_query"} THEN arg
    ELSE IF pc \in {"sweep", "failed_loop", "completed_loop"} /\ queue # <<>>
    THEN Head(queue)
    ELSE NoJob

\* get_async_invoke raises.
QueryRaises ==
    /\ pc \in {"one_query", "inprog_query", "sweep"}
    /\ StepJob # NoJob
    /\ queries' = queries + 1
    /\ faulted' = StepJob
    /\ Raise("ClientError")
    /\ UNCHANGED <<otherVars, remoteVars, diskVars, callVars, op, arg, after, lastStatus,
                   sleeps, sweeps, queue, pending, toRemove, batch, handled,
                   ops>>

\* list_async_invokes raises.
ListRaises ==
    /\ pc \in {"list_failed", "list_completed", "list_in_progress"}
    /\ Raise("ClientError")
    /\ UNCHANGED <<otherVars, remoteVars, diskVars, callVars, op, arg, after, lastStatus,
                   queries, sleeps, sweeps, queue, pending, toRemove, batch,
                   handled, faulted, ops>>

\* save_completed_job leaves by an exception of list_objects_v2 ("list"), of
\* download_file ("download") or of the write of completed.json ("write");
\* what ran before the failing call has taken effect.
save_completed_job_raises(j, at) ==
    /\ ~is_video_downloaded_for_invocation_job(j)
    /\ listings' = Inc(listings, j)
    /\ UNCHANGED <<completedJson, failedJson, completedWrites, failedWrites,
                   scCalls, sfCalls>>
    /\ \/ /\ at = "list"
          /\ UNCHANGED <<mp4, downloads, errors>>
       \/ /\ at = "download"
          /\ DownloadFound(j)
          /\ downloads' = Inc(downloads, j)
          /\ UNCHANGED <<mp4, errors>>
       \/ /\ at = "write"
          /\ IF DownloadFound(j)
             THEN /\ downloads' = Inc(downloads, j)
                  /\ mp4' = [mp4 EXCEPT ![j] = TRUE]
                  /\ errors' = errors
             ELSE /\ errors' = errors \cup {<<"NoMp4InS3", j>>}
                  /\ UNCHANGED <<mp4, downloads>>

\* save_failed_job leaves by an exception of the write of failed.json.
save_failed_job_raises(j) ==
    /\ ~FailedAlreadySaved(j)
    /\ UNCHANGED <<diskVars, callVars>>

\* A step that would persist a terminal job fails inside the persistence.
PersistRaises ==
    /\ StepJob # NoJob
    /\ \/ /\ pc \in {"one_query", "inprog_query", "sweep"}
          /\ status[StepJob] \in Terminal
          /\ Query(StepJob)
       \/ /\ pc \in {"failed_loop", "completed_loop"}
          /\ UNCHANGED <<lastStatus, queries>>
    /\ IF pc = "completed_loop" \/ (pc # "failed_loop" /\ status[StepJob] = "Completed")
       THEN \E at \in {"list", "download", "write"} :
                save_completed_job_raises(StepJob, at)
       ELSE save_failed_job_raises(StepJob)
    /\ faulted' = StepJob
    /\ Raise("IOError")
    /\ UNCHANGED <<otherVars, remoteVars, op, arg, after, sleeps, sweeps, queue, pending,
                   toRemove, batch, handled, ops>>

NextF ==
    \/ Next
    \/ QueryRaises
    \/ ListRaises
    \/ PersistRaises

\* The monitor with remote calls and file writes that may fail.
SpecF == Init /\ [][NextF]_vars

\* ================================================================ claims
MonitorOneDone == pc = "done" /\ op = "monitor_and_download_video"

Written(f, j) == f[j] # Absent

\* C1: monitor_and_download_video on a job whose status is Failed writes
\* failed.json and returns None by normal return, whether Failed is the
\* answer of the first status query or follows InProgress polls.
C1_FailedReturnsNone ==
    (MonitorOneDone /\ lastStatus = "Failed")
        => (outcome = "returned" /\ ret = None /\ Written(failedJson, arg))

\* C2 as stated: two calls of save_completed_job for the same job make
\* exactly one download and exactly one write of completed.json.
C2_OneDownloadOneWrite ==
    \A j \in Jobs :
        scCalls[j] = 2 => (downloads[j] = 1 /\ completedWrites[j] = 1)

\* C2 amended: for a job whose bucket holds a matching .mp4, two or more
\* calls of save_completed_job make exactly one download and one write of
\* completed.json; for a job with no matching object no call downloads and
\* every call writes completed.json.
C2_OneDownloadWhenInStorage ==
    \A j \in Jobs :
        scCalls[j] >= 2 =>
            IF s3HasMp4[j]
            THEN downloads[j] = 1 /\ completedWrites[j] = 1 /\ mp4[j]
            ELSE downloads[j] = 0 /\ completedWrites[j] = scCalls[j]

C2_Witness ==
    /\ pc = "done"
    /\ op = "save_completed_job"
    /\ s3HasMp4[arg]
    /\ scCalls[arg] = 2
    /\ \E k \in Jobs : ~s3HasMp4[k] /\ scCalls[k] = 0

\* C3: however often save_failed_job is called for a job, failed.json is
\* written exactly once, and a call that finds the file leaves its content
\* as the first call wrote it.
C3_FailedWrittenOnce ==
    /\ [](\A j \in Jobs : sfCalls[j] >= 1 => failedWrites[j] = 1)
    /\ [][\A j \in Jobs :
            Written(failedJson, j) => failedJson'[j] = failedJson[j]]_vars

C3_Witness ==
    \E j \in Jobs :
        sfCalls[j] >= 2 /\ failedWrites[j] = 1 /\ op = "save_failed_job"

\* C4: monitor_and_download_video on a job observed Completed, after which
\* the job's .mp4 is at its local path, returns that path.
C4_CompletedReturnsPath ==
    (MonitorOneDone /\ lastStatus = "Completed" /\ mp4[arg])
        => (outcome = "returned" /\ ret = VideoPath(arg))

\* C5: a call of save_completed_job that finds the artifact file lists
\* nothing, downloads nothing and leaves completed.json and the artifact as
\* they are, in this and in any later run.
C5_SkipLeavesAllUnchanged ==
    [][\A j \in Jobs :
        (mp4[j] /\ scCalls'[j] = scCalls[j] + 1) =>
            /\ listings'[j] = listings[j]
            /\ downloads'[j] = downloads[j]
            /\ completedWrites'[j] = completedWrites[j]
            /\ completedJson'[j] = completedJson[j]
            /\ mp4'[j]]_vars

C5_Witness ==
    /\ pc = "done"
    /\ op \in {"save_completed_job", "monitor_and_download_video"}
    /\ ops >= 2
    /\ mp4[arg]
    /\ scCalls[arg] >= 2
    /\ ret = None

\* C6: with a remote service that never changes a terminal status, no job
\* folder ever holds both completed.json and failed.json.
C6_CompletedXorFailed ==
    \A j \in Jobs : ~(Written(completedJson, j) /\ Written(failedJson, j))

C6_Witness ==
    \E j, k \in Jobs :
        /\ Written(completedJson, j)
        /\ Written(failedJson, k)
        /\ sfCalls[k] >= 2
        /\ scCalls[j] >= 2

C8_NoObjectNoPath ==
    (/\ pc = "done"
     /\ \/ op = "save_completed_job"
        \/ op = "monitor_and_download_video" /\ lastStatus = "Completed"
     /\ ~s3HasMp4[arg])
        => /\ outcome = "returned"
           /\ ret = None
           /\ ~mp4[arg]
           /\ <<"NoMp4InS3", arg>> \in errors

C8_Witness ==
    /\ MonitorOneDone
    /\ lastStatus = "Completed"
    /\ ~s3HasMp4[arg]
    /\ Written(completedJson, arg)

\* C9: an error raised for one job of a batch does not stop the others: when
\* the batch operation is over, every other job its listings returned has
\* been passed to save_completed_job or save_failed_job.
C9_OthersStillPersisted ==
    (/\ pc = "done"
     /\ op \in {"monitor_and_download_videos",
                "monitor_and_download_in_progress_videos"}
     /\ faulted # NoJob)
        => (batch \ {faulted}) \subseteq handled

\* C10 as stated: monitor_and_download_video returns only after a status
\* query gave Completed or Failed.
C10_ReturnsOnlyWhenTerminal ==
    (MonitorOneDone /\ outcome = "returned") => lastStatus \in Terminal

\* C10 amended: monitor_and_download_video returns only after a status query
\* gave a status other than InProgress; when that status is neither
\* Completed nor Failed the call logs an error and returns None.
C10_ReturnsOnlyWhenNotInProgress ==
    (MonitorOneDone /\ outcome = "returned") =>
        /\ lastStatus \in Statuses \ {"InProgress"}
        /\ lastStatus \notin Terminal =>
              (ret = None /\ <<"UnexpectedStatus", arg>> \in errors)

C10_Witness ==
    /\ MonitorOneDone
    /\ outcome = "returned"
    /\ sleeps >= 1
    /\ lastStatus \in Terminal

\* The batch operations, and a step of theirs that queries job j.
BatchOps == {"monitor_and_download_videos",
             "monitor_and_download_in_progress_videos"}

QueriedInStep(j) ==
    /\ pc = "sweep"
    /\ queue # <<>>
    /\ Head(queue) = j
    /\ queries' = queries + 1

NoDoubleProcessingStep ==
    op \in BatchOps =>
        /\ \A j \in handled :
              /\ scCalls'[j] = scCalls[j]
              /\ sfCalls'[j] = sfCalls[j]
              /\ ~QueriedInStep(j)
        /\ (pc = "sweep_end" /\ pc' # "sweep_end") =>
              (/\ Range(pending') \cap handled = {}
               /\ Range(pending') = Range(pending) \ Range(toRemove))

\* C11: within one run of a batch operation no job is processed twice: a
\* job passed to save_completed_job or save_failed_job (from a listing or
\* from a sweep) is never queried again and never passed to them again in
\* that run, and the end of the sweep that found it terminal removes it from
\* the pending list.
C11_NoDoubleProcessing == [][NoDoubleProcessingStep]_vars

C11_Witness ==
    /\ op = "monitor_and_download_videos"
    /\ pc = "sweep"
    /\ sweeps >= 1
    /\ queries >= 3
    /\ \E j \in handled : j \notin Range(pending) /\ sfCalls[j] + scCalls[j] = 1
    /\ Cardinality(handled) = 1

EmptyListingStep ==
    (pc = "list_in_progress" /\ pc' # "list_in_progress" /\ pending' = <<>>
        /\ outcome' # "raised")
        => /\ pc' = "done"
           /\ outcome' = "returned"
           /\ queries' = 0
           /\ sleeps' = 0
           /\ sweeps' = 0

\* C13: when the in-progress listing returns no job,
\* monitor_and_download_in_progress_videos returns at once, with no status
\* query and no sleep.
C13_EmptyPendingReturnsAtOnce == [][EmptyListingStep]_vars

C13_Witness ==
    /\ pc = "done"
    /\ op \in BatchOps
    /\ outcome = "returned"
    /\ pending = <<>>
    /\ sweeps = 0
    /\ sleeps = 0
    /\ queries = 0
    /\ \E j \in Jobs : status[j] \in Terminal

\* C17: when submit_time_after is given, every job monitor_and_download_videos
\* persists, downloads or polls (Failed, Completed and in-progress alike) was
\* submitted after submit_time_after.
C17_FilterAppliesToAllJobs ==
    (op = "monitor_and_download_videos" /\ after # NoTime)
        => \A j \in batch \cup handled \cup Range(pending) :
               submitTime[j] > after

\* ------------------------------------------- termination of the batch
\* The end of a sweep once the sleep counter has reached its bound: the same
\* removals, time.sleep(10) and loop test, with the counters kept.
SweepEndSaturated ==
    /\ pc = "sweep_end"
    /\ sleeps = MaxSleeps
    /\ pending' = RemoveAll(pending, Range(toRemove))
    /\ queue' = pending'
    /\ toRemove' = <<>>
    /\ IF pending' = <<>> THEN Return(None) ELSE Running("sweep")
    /\ UNCHANGED <<otherVars, remoteVars, diskVars, callVars, op, arg, after, lastStatus,
                   queries, sleeps, sweeps, batch, handled, faulted, ops>>

\* One iteration of `for job_arn in pending_job_arns` while the counters count.
SweepQueryCounted ==
    /\ sleeps < MaxSleeps
    /\ SweepQuery

\* The same iteration once the sleep counter has reached its bound, with the
\* query counter kept.
SweepQuerySaturated ==
    /\ pc = "sweep"
    /\ sleeps = MaxSleeps
    /\ queue # <<>>
    /\ lastStatus' = status[Head(queue)]
    /\ queue' = Tail(queue)
    /\ Running(IF Tail(queue) = <<>> THEN "sweep_end" ELSE "sweep")
    /\ UNCHANGED <<otherVars, remoteVars, op, arg, after, queries, sleeps, sweeps, pending,
                   batch, faulted, ops>>
    /\ IF SweepTerminal(status[Head(queue)])
       THEN /\ IF status[Head(queue)] = "Completed"
               THEN save_completed_job(Head(queue), "detail")
               ELSE save_failed_job(Head(queue), "detail")
            /\ handled' = handled \cup {Head(queue)}
            /\ toRemove' = Append(toRemove, Head(queue))
       ELSE UNCHANGED <<diskVars, callVars, handled, toRemove>>

\* A step of the running monitor_and_download_in_progress_videos.
InProgressBatchStep ==
    \/ ListInProgress
    \/ SweepQueryCounted
    \/ SweepQuerySaturated
    \/ SweepEnd
    \/ SweepEndSaturated

NextLive ==
    \/ CallMonitorInProgress
    \/ ListInProgress
    \/ SweepQueryCounted
    \/ SweepQuerySaturated
    \/ SweepEnd
    \/ SweepEndSaturated
    \/ Finish
    \/ \E j \in Jobs : RemoteAdvance(j)

\* monitor_and_download_in_progress_videos with no failing call: the function
\* is sequential code, so a started call keeps taking its next step, and the
\* service brings every job to Completed or Failed.
SpecLive ==
    /\ Init
    /\ [][NextLive]_vars
    /\ WF_vars(InProgressBatchStep)
    /\ \A j \in Jobs : WF_vars(RemoteAdvance(j))

InProgressBatchRunning ==
    /\ op = "monitor_and_download_in_progress_videos"
    /\ pc \in {"list_in_progress", "sweep", "sweep_end"}

InProgressBatchReturned ==
    /\ op = "monitor_and_download_in_progress_videos"
    /\ pc = "done"
    /\ outcome = "returned"

PendingAllHandled ==
    /\ pending = <<>>
    /\ \A j \in batch :
          /\ j \in handled
          /\ status[j] \in Terminal
          /\ status[j] = "Completed" => scCalls[j] >= 1 /\ sfCalls[j] = 0
          /\ status[j] = "Failed" => sfCalls[j] >= 1 /\ scCalls[j] = 0

\* C12: when every job of the in-progress set eventually reports Completed
\* or Failed and no call raises, monitor_and_download_in_progress_videos
\* eventually returns, and at its return every job that was pending has been
\* passed to save_completed_job or save_failed_job according to its status.
C12_BatchTerminates ==
    /\ InProgressBatchRunning ~> InProgressBatchReturned
    /\ [](InProgressBatchReturned => PendingAllHandled)

C12_Witness ==
    /\ InProgressBatchReturned
    /\ sweeps >= 2
    /\ \E j, k \in batch :
          /\ status[j] = "Completed" /\ scCalls[j] = 1
          /\ status[k] = "Failed" /\ sfCalls[k] = 1

\* =========================================== the output tree by path
\* Process runs started after the first one.
MaxClock == 1
\* Folder names one behaviour records.
MaxNamed == 2
\* Job folders one behaviour creates.
MaxFolders == 2
\* File writes after which one behaviour starts no further call.
MaxWrites == 3

\* Job handles as strings of tokens, "/" being the separator character.
Handles == {<<"abc123">>,
            <<"arn:aws:bedrock", "/", "async-invoke", "/", "abc123">>,
            <<"arn:aws:bedrock", "/", "async-invoke", "/", "xyz789">>}

\* Submit instants, in hours after 2024-01-01T00:00:00Z.
Instants == {10, 20}

\* UTC offsets of the local timezone, in hours.
TzOffsets == {0, 9}

HoursPerDay == 24

\* output_folder of the calls.
Root == "output"

\* The monitor at rest, with one fixed remote state.
MonitorPinned ==
    /\ MonitorInit
    /\ s3HasMp4 = [j \in Jobs |-> TRUE]
    /\ submitTime = [j \in Jobs |-> 1]

notPathVars == <<monitorVars, scriptVars, retryVars, watchVars, parseVars,
                 imageVars>>

\* str.split(sep): the segments of a string between the separators.
RECURSIVE split(_, _)
split(str, sep) ==
    IF str = <<>> THEN << <<>> >>
    ELSE LET rest == split(Tail(str), sep)
         IN IF Head(str) = sep THEN << <<>> >> \o rest
            ELSE << <<Head(str)>> \o Head(rest) >> \o Tail(rest)

\* invocation_arn.split("/")[-1]
get_job_id_from_arn(arn) ==
    LET segments == split(arn, "/") IN segments[Len(segments)]

\* submit_time.astimezone(): the instant on the local clock.
astimezone(t, offset) == t + offset

\* strftime("%Y-%m-%d_%H-%M-%S") of a local time: the day (0 is 2024-01-01)
\* and the hour of the day, minutes and seconds being 00.
strftime(local) == <<local \div HoursPerDay, local % HoursPerDay>>

get_folder_name_for_job_now(arn, t, offset) ==
    <<strftime(astimezone(now, offset)), get_job_id_from_arn(arn)>>

\* f"{timestamp}_{invocation_id}" in a process whose timezone has the offset.
get_folder_name_for_job(arn, t, offset) ==
    <<strftime(astimezone(t, offset)), get_job_id_from_arn(arn)>>

\* os.path.join(output_folder_abs, f"{invocation_id}.mp4"); a file name is
\* its stem and its extension.
Mp4Path(folder, id) == <<Root, folder, <<id, ".mp4">> >>

\* os.path.join(output_folder_abs, "completed.json")
CompletedPath(folder) == <<Root, folder, << <<"completed">>, ".json">> >>

Folders(fs) == {f[2] : f \in fs}

\* os.path.join(output_folder_abs, "<stem>.json")
InfoPath(folder, stem) == <<Root, folder, << <<stem>>, ".json">> >>

\* The writes of the paths ps for the job (arn, t) by the running process.
Writes(arn, t, ps) ==
    {[arn |-> arn, submit |-> t, tz |-> tzone, path |-> p] : p \in ps}

\* A process run starts: its environment fixes the timezone, the clock has
\* moved on, the output tree is what the earlier runs left.
PathRestart(offset) ==
    /\ now < MaxClock
    /\ now' = now + 1
    /\ tzone' = offset
    /\ UNCHANGED <<files, named, pathRet, pathJob, written, notPathVars>>

\* A call of get_folder_name_for_job.
PathFolderName(arn, t) ==
    /\ Cardinality(named) < MaxNamed
    /\ named' = named \cup
          {[arn |-> arn, submit |-> t, tz |-> tzone, clock |-> now,
            name |-> get_folder_name_for_job(arn, t, tzone)]}
    /\ UNCHANGED <<tzone, now, files, pathRet, pathJob, written, notPathVars>>

\* A call of save_completed_job for a job whose bucket holds (found) or does
\* not hold a matching object.
PathSaveCompleted(arn, t, found) ==
    LET id == get_job_id_from_arn(arn)
        folder == get_folder_name_for_job(arn, t, tzone)
    IN /\ folder \in Folders(files) \/ Cardinality(Folders(files)) < MaxFolders
       /\ Cardinality(written) < MaxWrites
       /\ pathJob' = [arn |-> arn, submit |-> t, found |-> found]
       /\ IF Mp4Path(folder, id) \in files
          THEN /\ pathRet' = None
               /\ files' = files
               /\ written' = written
          ELSE IF found
          THEN /\ files' = files \cup {Mp4Path(folder, id), CompletedPath(folder)}
               /\ written' = written \cup Writes(arn, t, {Mp4Path(folder, id),
                                                         CompletedPath(folder)})
               /\ pathRet' = Mp4Path(folder, id)
          ELSE /\ files' = files \cup {CompletedPath(folder)}
               /\ written' = written \cup Writes(arn, t, {CompletedPath(folder)})
               /\ pathRet' = None
       /\ UNCHANGED <<tzone, now, named, notPathVars>>

\* A call of save_invocation_info at the submission of a job: the folder is
\* created and the two files are written.
PathSaveInvocationInfo(arn, t) ==
    LET folder == get_folder_name_for_job(arn, t, tzone)
        new == {InfoPath(folder, "start_async_invoke_response"),
                InfoPath(folder, "model_input")}
    IN /\ folder \in Folders(files) \/ Cardinality(Folders(files)) < MaxFolders
       /\ Cardinality(written) < MaxWrites
       /\ files' = files \cup new
       /\ written' = written \cup Writes(arn, t, new)
       /\ UNCHANGED <<tzone, now, named, pathRet, pathJob, notPathVars>>

\* A call of save_failed_job: skipped when failed.json is there.
PathSaveFailed(arn, t) ==
    LET folder == get_folder_name_for_job(arn, t, tzone)
    IN /\ folder \in Folders(files) \/ Cardinality(Folders(files)) < MaxFolders
       /\ Cardinality(written) < MaxWrites
       /\ IF InfoPath(folder, "failed") \in files
          THEN UNCHANGED <<files, written>>
          ELSE /\ files' = files \cup {InfoPath(folder, "failed")}
               /\ written' = written \cup
                     Writes(arn, t, {InfoPath(folder, "failed")})
       /\ UNCHANGED <<tzone, now, named, pathRet, pathJob, notPathVars>>

NameInit ==
    /\ MonitorPinned
    /\ tzone \in TzOffsets
    /\ now = 0
    /\ files = {}
    /\ named = {}
    /\ pathRet = None
    /\ pathJob = NoPathJob
    /\ written = {}
    /\ ScriptIdle
    /\ RetryIdle
    /\ WatchIdle
    /\ ParseIdle
    /\ ImageIdle

NextName ==
    \/ \E offset \in TzOffsets : PathRestart(offset)
    \/ \E arn \in Handles, t \in Instants : PathFolderName(arn, t)

\* get_folder_name_for_job called in successive process runs.
SpecName == NameInit /\ [][NextName]_vars

NextPath ==
    \/ \E offset \in TzOffsets : PathRestart(offset)
    \/ \E arn \in Handles, t \in Instants, found \in BOOLEAN :
          PathSaveCompleted(arn, t, found)
    \/ \E arn \in Handles, t \in Instants : PathSaveInvocationInfo(arn, t)
    \/ \E arn \in Handles, t \in Instants : PathSaveFailed(arn, t)

\* save_completed_job called in successive process runs.
SpecPath == NameInit /\ [][NextPath]_vars

\* C14: the folder name is a function of (handle, submitTime) alone: two
\* computations with the same handle and the same submit instant yield the
\* same name in any two process runs, whatever the rest of the process state
\* and of its environment.
C14_NameFromHandleAndTimeAlone ==
    \A a, b \in named :
        (a.arn = b.arn /\ a.submit = b.submit) => a.name = b.name

\* C14 (amended): the folder name is a function of the handle, the submit
\* instant and the local timezone of the process: two computations with the
\* same three yield the same name in any two process runs.
C14_NameFromHandleTimeAndZone ==
    \A a, b \in named :
        (a.arn = b.arn /\ a.submit = b.submit /\ a.tz = b.tz)
            => a.name = b.name

C14_Witness ==
    \E a, b \in named :
        /\ a.clock # b.clock
        /\ a.arn = b.arn /\ a.submit = b.submit /\ a.tz = b.tz
        /\ Len(a.arn) > 1
        /\ a.name = b.name

\* The submit time formatted YYYY-MM-DD_HH-MM-SS as the instant is written
\* (2024-01-01T10:00:00Z gives 2024-01-01_10-00-00).
SubmitStamp(t) == <<t \div HoursPerDay, t % HoursPerDay>>

\* C15: after save_completed_job has succeeded for a Completed job with a
\* matching object in the bucket, the artifact is at
\* <root>/<timestamp>_<jobIdSuffix>/<jobIdSuffix>.mp4 with the submit time as
\* timestamp and the last "/"-segment of the handle as suffix, completed.json
\* is in the same folder, and the returned path is the artifact path; handle
\* abc123 submitted at 2024-01-01T10:00:00Z gives
\* <root>/2024-01-01_10-00-00_abc123/abc123.mp4.
C15_ArtifactAtSubmitTimePath ==
    (pathJob # NoPathJob /\ pathJob.found) =>
        LET id == get_job_id_from_arn(pathJob.arn)
            folder == <<SubmitStamp(pathJob.submit), id>>
        IN /\ <<Root, folder, <<id, ".mp4">> >> \in files
           /\ <<Root, folder, << <<"completed">>, ".json">> >> \in files
           /\ pathRet = <<Root, folder, <<id, ".mp4">> >>
           /\ (pathJob.arn = <<"abc123">> /\ pathJob.submit = 10) =>
                 pathRet = <<"output", <<<<0, 10>>, <<"abc123">> >>,
                             <<<<"abc123">>, ".mp4">> >>

\* ================================================ the sample scripts
\* 01_text_to_video_generation.py, 02_image_to_video_generation.py and
\* 03_chaining_video_generations.py: main() and generate_video().
Scripts == {"01", "02", "03"}

\* What a generate_video call meets: start_async_invoke raises; it succeeds
\* and save_invocation_info raises, in its get_async_invoke or in a file
\* write; or all succeed.
GenerateOutcomes == {"start_raises", "lookup_raises", "write_raises", "ok"}

\* What a monitor_and_download_video call meets: the job completes and its
\* video is downloaded; it completes and the bucket holds no video; it fails
\* after having been in progress; it is Failed at the first query; a remote
\* call or a file write raises.
MonitorCases == {"downloaded", "no_object", "failed_later", "failed_at_once",
                 "call_raises"}

\* monitor_and_download_video by what it meets: the path, None, or an
\* exception (local_file_path is unbound when the first status is Failed).
MonitorRaises(c) == c \in {"failed_at_once", "call_raises"}

notScriptVars == <<monitorVars, pathVars, retryVars, watchVars, parseVars,
                   imageVars>>

Call(fn, a, b) == [fn |-> fn, a |-> a, b |-> b]

StartRaised == Call("start_async_invoke", "raised", NoneStr)

\* The handles start_async_invoke may return; the service gives every job
\* a handle of its own.
ScriptHandles == {"arn/job1", "arn/job2"}

\* The local path monitor_and_download_video returns for a handle.
PathOf(arn) == IF arn = "arn/job1" THEN "output/job1.mp4" ELSE "output/job2.mp4"

\* The calls generate_video makes, by what it meets.
GenerateCalls(h, o) ==
    IF o = "start_raises" THEN <<StartRaised>>
    ELSE <<Call("start_async_invoke", h, NoneStr),
           Call("save_invocation_info", h, o)>>

\* generate_video: any exception of the try block is logged and None is
\* returned; else the handle.
generate_video(h, o) == IF o = "ok" THEN h ELSE NoneStr

NoHandle_never(arn) == FALSE

\* `if not invocation_arn`
NoHandle(arn) == arn = NoneStr

\* An uncaught exception ends the process with status 1.
Dies ==
    /\ spc' = "exit"
    /\ exitCode' = 1

\* python3 <script>
ScriptStart(sc) ==
    /\ script = "none"
    /\ script' = sc
    /\ spc' = "generate1"
    /\ UNCHANGED <<arn1, arn2, path1, path2, frame, exitCode, calls,
                   notScriptVars>>

\* invocation_arn = generate_video(...), first job.
ScriptGenerate1(o, h) ==
    /\ spc = "generate1"
    /\ calls' = calls \o GenerateCalls(h, o)
    /\ arn1' = generate_video(h, o)
    /\ spc' = "check1"
    /\ UNCHANGED <<script, arn2, path1, path2, frame, exitCode,
                   notScriptVars>>

\* if not invocation_arn: exit(1), first job.
ScriptCheck1 ==
    /\ spc = "check1"
    /\ IF NoHandle(arn1)
       THEN spc' = "exit" /\ exitCode' = 1
       ELSE spc' = "monitor1" /\ exitCode' = exitCode
    /\ UNCHANGED <<script, arn1, arn2, path1, path2, frame, calls,
                   notScriptVars>>

\* local_file_path = monitor_and_download_video(invocation_arn, "output");
\* scripts 01 and 02 end after it, script 03 goes on whatever it returned.
ScriptMonitor1(c) ==
    /\ spc = "monitor1"
    /\ calls' = calls \o <<Call("monitor_and_download_video", arn1, c)>>
    /\ IF MonitorRaises(c)
       THEN Dies /\ path1' = path1
       ELSE /\ path1' = IF c = "downloaded" THEN PathOf(arn1) ELSE NoneStr
            /\ IF script = "03"
               THEN spc' = "extract" /\ exitCode' = exitCode
               ELSE spc' = "exit" /\ exitCode' = 0
    /\ UNCHANGED <<script, arn1, arn2, path2, frame, notScriptVars>>

\* extract_last_frame(local_file_path_1, last_frame_path): the frame is
\* written when the video opens and its last frame is read.
ScriptExtract(readable) ==
    /\ spc = "extract"
    /\ calls' = calls \o <<Call("extract_last_frame", path1, NoneStr)>>
    /\ frame' = (path1 # NoneStr /\ readable)
    /\ spc' = "generate2"
    /\ UNCHANGED <<script, arn1, arn2, path1, path2, exitCode, notScriptVars>>

\* invocation_arn_2 = generate_video(..., last_frame_path, ...): the input
\* image is opened before the try block.
ScriptGenerate2(o, h) ==
    /\ spc = "generate2"
    /\ h # arn1
    /\ IF frame
       THEN /\ calls' = calls \o GenerateCalls(h, o)
            /\ arn2' = generate_video(h, o)
            /\ spc' = "check2"
            /\ exitCode' = exitCode
       ELSE /\ Dies
            /\ UNCHANGED <<calls, arn2>>
    /\ UNCHANGED <<script, arn1, path1, path2, frame, notScriptVars>>

\* if not invocation_arn_2: exit(1)
ScriptCheck2 ==
    /\ spc = "check2"
    /\ IF NoHandle(arn2)
       THEN spc' = "exit" /\ exitCode' = 1
       ELSE spc' = "monitor2" /\ exitCode' = exitCode
    /\ UNCHANGED <<script, arn1, arn2, path1, path2, frame, calls,
                   notScriptVars>>

\* local_file_path_2 = monitor_and_download_video(invocation_arn_2, "output")
ScriptMonitor2(c) ==
    /\ spc = "monitor2"
    /\ calls' = calls \o <<Call("monitor_and_download_video", arn2, c)>>
    /\ IF MonitorRaises(c)
       THEN Dies /\ path2' = path2
       ELSE /\ path2' = IF c = "downloaded" THEN PathOf(arn2) ELSE NoneStr
            /\ spc' = "stitch"
            /\ exitCode' = exitCode
    /\ UNCHANGED <<script, arn1, arn2, path1, frame, notScriptVars>>

\* stitch_videos(local_file_path_1, local_file_path_2, output_path):
\* VideoFileClip raises on a path that is not a video file.
ScriptStitch ==
    /\ spc = "stitch"
    /\ calls' = calls \o <<Call("stitch_videos", path1, path2)>>
    /\ spc' = "exit"
    /\ exitCode' = IF path1 = NoneStr \/ path2 = NoneStr THEN 1 ELSE 0
    /\ UNCHANGED <<script, arn1, arn2, path1, path2, frame, notScriptVars>>

ScriptInit ==
    /\ MonitorPinned
    /\ PathIdle
    /\ ScriptIdle
    /\ RetryIdle
    /\ WatchIdle
    /\ ParseIdle
    /\ ImageIdle

NextScript ==
    \/ \E sc \in Scripts : ScriptStart(sc)
    \/ \E o \in GenerateOutcomes, h \in ScriptHandles : ScriptGenerate1(o, h)
    \/ ScriptCheck1
    \/ \E c \in MonitorCases : ScriptMonitor1(c)
    \/ \E readable \in BOOLEAN : ScriptExtract(readable)
    \/ \E o \in GenerateOutcomes, h \in ScriptHandles : ScriptGenerate2(o, h)
    \/ ScriptCheck2
    \/ \E c \in MonitorCases : ScriptMonitor2(c)
    \/ ScriptStitch

\* One run of one of the sample scripts.
SpecScript == ScriptInit /\ [][NextScript]_vars

\* C16: whenever start_async_invoke raises, generate_video returns None and
\* the script exits with status 1 without starting any monitoring, extraction
\* or stitching step (nor any other call) after it.
C16_SubmissionFailureExits ==
    \A i \in 1..Len(calls) :
        calls[i] = StartRaised =>
            /\ i = Len(calls)
            /\ spc \in {"check1", "check2", "exit"}
            /\ spc = "check1" => arn1 = NoneStr
            /\ spc = "check2" => arn2 = NoneStr
            /\ spc = "exit" => exitCode = 1

C16_Witness ==
    /\ script = "03"
    /\ spc = "exit"
    /\ exitCode = 1
    /\ Len(calls) = 5
    /\ calls[5] = StartRaised
    /\ calls[4].fn = "extract_last_frame"
    /\ calls[3].fn = "monitor_and_download_video"

\* C19: in the chaining workflow, when monitor_and_download_video returns
\* None for the first or the second job, the script does not go on to
\* extract a frame from, submit a follow-up job based on, or stitch the
\* missing video: extract_last_frame and stitch_videos are never called with
\* a None path.
C19_NoStepOnMissingVideo ==
    \A i \in 1..Len(calls) :
        /\ calls[i].fn = "extract_last_frame" => calls[i].a # NoneStr
        /\ calls[i].fn = "stitch_videos" =>
              calls[i].a # NoneStr /\ calls[i].b # NoneStr
        /\ (calls[i].fn = "start_async_invoke" /\ i > 1) => path1 # NoneStr

\* ================================== model invocation with retry (utils.py)
\* invoke_bedrock_model and invoke_bedrock_model_video of
\* multimodal-understanding/sample-apps/02-bedrock-notebook-lm/src/utils.py.

\* Invocations one behaviour makes.
MaxInvocations == 2

\* time.sleep(90)
ThrottleSleepSeconds == 90
\* if n_tries > 2
RetryLimit == 2

RetryFunctions == {"invoke_bedrock_model", "invoke_bedrock_model_video"}

\* What an attempt meets: the call returns; botocore raises ClientError with
\* the code ThrottlingException or with another code; another exception is
\* raised (in invoke_bedrock_model_video also by the parsing of the body).
AttemptOutcomes == {"ok", "ThrottlingException", "AccessDeniedException",
                    "Exception"}

notRetryVars == <<monitorVars, pathVars, scriptVars, watchVars, parseVars,
                  imageVars>>

RetryEnds(o) ==
    /\ rpc' = "done"
    /\ rout' = o

\* n_tries > 2
ExceedsLimit(n) == n > RetryLimit

\* A call of one of the two functions: n_tries = 0.
RetryInvoke(fn) ==
    /\ rpc = "idle"
    /\ Len(rlog) < MaxInvocations
    /\ rfn' = fn
    /\ rpc' = "top"
    /\ n_tries' = 0
    /\ rhist' = <<>>
    /\ slept' = 0
    /\ rout' = "none"
    /\ UNCHANGED <<rlog, notRetryVars>>

\* while True: if n_tries > 2: raise Exception("Too many retries")
RetryLoopTop ==
    /\ rpc = "top"
    /\ IF ExceedsLimit(n_tries)
       THEN RetryEnds("Too many retries")
       ELSE rpc' = "try" /\ rout' = rout
    /\ UNCHANGED <<rfn, n_tries, rhist, slept, rlog, notRetryVars>>

\* The try block and its except clauses.
RetryAttempt(o) ==
    /\ rpc = "try"
    /\ rhist' = Append(rhist, o)
    /\ IF o = "ok"
       THEN /\ RetryEnds("returned")
            /\ UNCHANGED <<n_tries, slept>>
       ELSE IF o = "ThrottlingException"
       THEN /\ n_tries' = n_tries + 1
            /\ IF ExceedsLimit(n_tries')
               THEN RetryEnds(o) /\ slept' = slept
               ELSE /\ slept' = slept + ThrottleSleepSeconds
                    /\ rpc' = "bottom"
                    /\ rout' = rout
       ELSE /\ RetryEnds(o)
            /\ UNCHANGED <<n_tries, slept>>
    /\ UNCHANGED <<rfn, rlog, notRetryVars>>

\* n_tries += 1 at the end of the loop body.
RetryLoopBottom ==
    /\ rpc = "bottom"
    /\ n_tries' = n_tries + 1
    /\ rpc' = "top"
    /\ UNCHANGED <<rfn, rhist, slept, rout, rlog, notRetryVars>>

\* The invocation is over; the caller goes on.
RetryFinish ==
    /\ rpc = "done"
    /\ rlog' = Append(rlog, [fn |-> rfn, hist |-> rhist, slept |-> slept,
                             out |-> rout])
    /\ rpc' = "idle"
    /\ rfn' = "none"
    /\ n_tries' = 0
    /\ rhist' = <<>>
    /\ slept' = 0
    /\ rout' = "none"
    /\ UNCHANGED notRetryVars

RetryInit ==
    /\ MonitorPinned
    /\ PathIdle
    /\ ScriptIdle
    /\ RetryIdle
    /\ WatchIdle
    /\ ParseIdle
    /\ ImageIdle

NextRetry ==
    \/ \E fn \in RetryFunctions : RetryInvoke(fn)
    \/ RetryLoopTop
    \/ \E o \in AttemptOutcomes : RetryAttempt(o)
    \/ RetryLoopBottom
    \/ RetryFinish

\* Model invocations of the notebook application, one after the other.
SpecRetry == RetryInit /\ [][NextRetry]_vars

AllThrottled(h) == h # <<>> /\ \A i \in 1..Len(h) : h[i] = "ThrottlingException"

\* C18: on a throttling error the invocation waits 90 seconds and retries,
\* at most 2 times: when every attempt is throttled it makes 3 attempts in
\* total and then re-raises the throttling error; any other error is
\* re-raised at its first occurrence, without a retry.
C18_ThreeAttemptsThenReraise ==
    rpc = "done" =>
        /\ AllThrottled(rhist) =>
              /\ Len(rhist) = RetryLimit + 1
              /\ slept = RetryLimit * ThrottleSleepSeconds
              /\ rout = "ThrottlingException"
        /\ (rout \in {"AccessDeniedException", "Exception"}) =>
              rhist[Len(rhist)] = rout

\* ===================================== monitor processes side by side
\* Calls of save_completed_job one watcher starts.
MaxWatcherCalls == 2

\* What a watcher's step leaves alone besides the output tree.
notWatchVars == <<remoteVars, failedJson, failedWrites, sfCalls, procVars,
                  pathVars, scriptVars, retryVars, parseVars, imageVars>>

\* A monitor process calls save_completed_job for a job it saw Completed:
\* job id, folder path, os.makedirs.
WatchCall(w, j) ==
    /\ wpc[w] = "idle"
    /\ wcalls[w] < MaxWatcherCalls
    /\ status[j] = "Completed"
    /\ wpc' = [wpc EXCEPT ![w] = "check"]
    /\ wjob' = [wjob EXCEPT ![w] = j]
    /\ wcalls' = Inc(wcalls, w)
    /\ wseen' = [wseen EXCEPT ![w] = @ \cup {j}]
    /\ UNCHANGED <<mp4, completedJson, listings, downloads, completedWrites,
                   scCalls, errors, notWatchVars>>

\* if is_video_downloaded_for_invocation_job(job): return
WatchCheck(w) ==
    /\ wpc[w] = "check"
    /\ IF is_video_downloaded_for_invocation_job(wjob[w])
       THEN /\ wpc' = [wpc EXCEPT ![w] = "idle"]
            /\ scCalls' = Inc(scCalls, wjob[w])
       ELSE /\ wpc' = [wpc EXCEPT ![w] = "download"]
            /\ scCalls' = scCalls
    /\ UNCHANGED <<wjob, wcalls, wseen, mp4, completedJson, listings,
                   downloads, completedWrites, errors, notWatchVars>>

\* local_file_path = download_video_for_invocation_arn(...)
WatchDownload(w) ==
    /\ wpc[w] = "download"
    /\ download_video_for_invocation_arn(wjob[w])
    /\ wpc' = [wpc EXCEPT ![w] = "write"]
    /\ UNCHANGED <<wjob, wcalls, wseen, completedJson, completedWrites,
                   scCalls, notWatchVars>>

\* The write of completed.json, and the return.
WatchWrite(w) ==
    /\ wpc[w] = "write"
    /\ completedJson' = [completedJson EXCEPT ![wjob[w]] = "detail"]
    /\ completedWrites' = Inc(completedWrites, wjob[w])
    /\ scCalls' = Inc(scCalls, wjob[w])
    /\ wpc' = [wpc EXCEPT ![w] = "idle"]
    /\ UNCHANGED <<wjob, wcalls, wseen, mp4, listings, downloads, errors,
                   notWatchVars>>

WatchInit ==
    /\ MonitorInit
    /\ submitTime = [j \in Jobs |-> 1]
    /\ PathIdle
    /\ ScriptIdle
    /\ RetryIdle
    /\ WatchIdle
    /\ ParseIdle
    /\ ImageIdle

NextWatch ==
    \/ \E w \in Watchers, j \in Jobs : WatchCall(w, j)
    \/ \E w \in Watchers : WatchCheck(w)
    \/ \E w \in Watchers : WatchDownload(w)
    \/ \E w \in Watchers : WatchWrite(w)
    \/ \E j \in Jobs : RemoteAdvance(j)

\* Two monitor processes on one output tree, their steps interleaved.
SpecWatch == WatchInit /\ [][NextWatch]_vars

WatchersOf(j) == {w \in Watchers : j \in wseen[w]}

\* C20: monitor instances for the same handle are not coordinated: the
\* artifact-exists check only keeps one watcher from downloading twice, so a
\* job is downloaded at most once per watcher that runs save_completed_job
\* for it (at most once with a single watcher), and with two watchers the
\* interleaving in which both pass the check before either has downloaded is
\* reachable: the artifact is downloaded twice and completed.json is written
\* twice.
C20_OneDownloadPerWatcher ==
    \A j \in Jobs : downloads[j] <= Cardinality(WatchersOf(j))

C20_Witness ==
    \E j \in Jobs :
        /\ \A w \in Watchers :
              wpc[w] = "idle" /\ wcalls[w] = 1 /\ wseen[w] = {j}
        /\ downloads[j] = 2
        /\ completedWrites[j] = 2

\* C23: monitor_and_download_videos handles the already-terminal jobs before
\* it polls: every listed Failed job is passed to save_failed_job, then every
\* listed Completed job to save_completed_job, and only after all of them is
\* the in-progress listing fetched and the first status query issued.
C23_TerminalBeforePolling ==
    (op = "monitor_and_download_videos" /\ pc # "done") =>
        /\ pc = "list_failed" => handled = {} /\ batch = {}
        /\ pc \in {"list_failed", "failed_loop", "list_completed",
                   "completed_loop", "list_in_progress"} => queries = 0
        /\ pc \in {"failed_loop", "list_completed"} =>
              \A j \in handled : status[j] = "Failed" /\ scCalls[j] = 0
        /\ pc \in {"failed_loop", "completed_loop"} =>
              batch \ handled = Range(queue)
        /\ pc \in {"list_completed", "list_in_progress"} => batch \subseteq handled
        /\ pc \in {"sweep", "sweep_end"} =>
              batch \ Range(pending) \subseteq handled

C23_Witness ==
    /\ op = "monitor_and_download_videos"
    /\ pc = "sweep_end"
    /\ queries = 1
    /\ \E j \in handled : status[j] = "Failed" /\ sfCalls[j] = 1
    /\ \E j \in Range(pending) : status[j] = "InProgress"

\* C24: between any two consecutive status queries monitor_and_download_video
\* issues for its handle there is exactly one 10-second sleep: n queries are
\* separated by n - 1 sleeps.
C24_OneSleepBetweenQueries ==
    (op = "monitor_and_download_video" /\ queries >= 1) =>
        /\ queries <= sleeps + 1
        /\ sleeps <= queries

\* C24 (amended): the query of monitor_and_download_video and the first query
\* of monitor_and_download_in_progress_video follow each other without a
\* sleep; from then on every InProgress result is followed by exactly one
\* sleep before the next query, so once the second query is out the queries
\* number two more than the sleeps.
C24_OneSleepBetweenLoopQueries ==
    op = "monitor_and_download_video" =>
        /\ pc = "one_query" => queries = 0 /\ sleeps = 0
        /\ pc = "inprog_query" => queries = sleeps + 1
        /\ pc = "one_sleep" => queries = sleeps + 2 /\ lastStatus = "InProgress"
        /\ pc = "done" =>
              \/ queries = 1 /\ sleeps = 0
              \/ queries = sleeps + 2
              \/ outcome = "raised"

C24_Witness ==
    /\ MonitorOneDone
    /\ outcome = "returned"
    /\ queries = 4
    /\ sleeps = 2

\* A step that ends a sweep sleeps once, whether or not it ends the loop, and
\* a batch operation that has swept returns by such a step only.
SweepThenSleepStep ==
    op \in BatchOps =>
        /\ (pc = "sweep_end" /\ pc' # "sweep_end") =>
              /\ sleeps' = sleeps + 1
              /\ sweeps' = sweeps + 1
        /\ (pc # "done" /\ pc' = "done" /\ outcome' = "returned") =>
              \/ pc = "list_in_progress" /\ pending' = <<>> /\ sleeps' = sleeps
              \/ pc = "sweep_end" /\ pending' = <<>> /\ sleeps' = sleeps + 1
        /\ (pc = "sweep" /\ pc' = "sweep") => sleeps' = sleeps

\* C29: in monitor_and_download_in_progress_videos every sweep over a
\* non-empty pending set is followed by exactly one 10-second sleep, the
\* sweep that removes the last pending job included: the sleeps number the
\* sweeps, and the function returns only after the sleep that follows the
\* sweep in which the last job was found terminal.
C29_SleepsEqualSweeps ==
    /\ [][SweepThenSleepStep]_vars
    /\ [](op \in BatchOps => sleeps = sweeps)

C29_Witness ==
    /\ op = "monitor_and_download_in_progress_videos"
    /\ pc = "done"
    /\ outcome = "returned"
    /\ sweeps = 2
    /\ sleeps = 2
    /\ Cardinality(handled) = 2

\* A call of save_completed_job for a Completed job without a video in the
\* bucket returns in this step.
SaveWithoutObjectStep(j) ==
    (~s3HasMp4[j] /\ scCalls'[j] = scCalls[j] + 1) =>
        /\ listings'[j] = listings[j] + 1
        /\ completedWrites'[j] = completedWrites[j] + 1
        /\ completedJson'[j] # Absent
        /\ downloads'[j] = 0
        /\ ~mp4'[j]
        /\ <<"NoMp4InS3", j>> \in errors'

\* C25: when a job is Completed and the bucket holds no matching .mp4,
\* save_completed_job still writes completed.json, and as the skip check
\* looks at the artifact file only, every later call for the handle lists the
\* bucket again and rewrites completed.json.
C25_NoObjectRewritesEveryTime == [][\A j \in Jobs : SaveWithoutObjectStep(j)]_vars

C25_Witness ==
    \E j \in Jobs :
        /\ ~s3HasMp4[j]
        /\ scCalls[j] = 2
        /\ listings[j] = 2
        /\ completedWrites[j] = 2
        /\ Written(completedJson, j)
        /\ ~mp4[j]

\* The job passes the filter of the running call.
MatchesFilter(j) == after = NoTime \/ submitTime[j] > after

\* C26: every job that exists when monitor_and_download_videos starts,
\* matches its filter and reaches Completed or Failed is persisted by the
\* time the call returns, whatever the interleaving of the job's status
\* transitions with the three list calls; a job that turns terminal after the
\* Failed and Completed listings and before the in-progress listing is not
\* skipped.
C26_NoTerminalJobSkipped ==
    (op = "monitor_and_download_videos" /\ pc = "done" /\ outcome = "returned")
        => \A j \in Jobs :
              (MatchesFilter(j) /\ status[j] \in Terminal) =>
                  /\ j \in handled
                  /\ Written(completedJson, j) \/ Written(failedJson, j)

\* C21: all persisted files of one job live in one subfolder of the output
\* root: the folder save_invocation_info writes into at submission is the
\* folder save_completed_job / save_failed_job write into later, for the same
\* handle and output root.
C21_OneFolderPerJob ==
    \A a, b \in written :
        (a.arn = b.arn /\ a.submit = b.submit) => a.path[2] = b.path[2]

\* C21 (amended): the files of one job written by process runs that have the
\* same local timezone live in one subfolder of the output root, whichever of
\* save_invocation_info, save_completed_job and save_failed_job wrote them.
C21_OneFolderPerJobAndZone ==
    \A a, b \in written :
        (a.arn = b.arn /\ a.submit = b.submit /\ a.tz = b.tz)
            => a.path[2] = b.path[2]

C21_Witness ==
    \E a, b \in written :
        /\ a.arn = b.arn /\ a.submit = b.submit /\ a.tz = b.tz
        /\ a.path[3] = <<<<"model_input">>, ".json">>
        /\ b.path[3][2] = ".mp4"
        /\ a.path[2] = b.path[2]

\* ------------------------------------------- monitor runs that are killed
\* The process of a watcher is killed inside save_completed_job: what it has
\* written stays, the call does not return, and a later run starts over.
WatchKill(w) ==
    /\ wpc[w] # "idle"
    /\ wpc' = [wpc EXCEPT ![w] = "idle"]
    /\ wjob' = [wjob EXCEPT ![w] = "nojob"]
    /\ UNCHANGED <<wcalls, wseen, mp4, completedJson, listings, downloads,
                   completedWrites, scCalls, errors, notWatchVars>>

NextCrash ==
    \/ NextWatch
    \/ \E w \in Watchers : WatchKill(w)

\* Monitor runs that may be killed at any step and started again.
SpecCrash == WatchInit /\ [][NextCrash]_vars

\* C27: with monitor runs that may be killed at any step and restarted, once
\* a run has returned for a job whose artifact file exists locally,
\* completed.json exists in the job's folder too: a crash between the
\* download and the snapshot write is repaired by the next run.
\* It is read with no run in progress, so that a run that is still between
\* its download and its write is not counted against it.
C27_ReturnedWithArtifactHasSnapshot ==
    (\A w \in Watchers : wpc[w] = "idle")
        => \A j \in Jobs :
               (scCalls[j] >= 1 /\ mp4[j]) => Written(completedJson, j)

\* C28: generate_video returns None only if no remote job was started:
\* whenever start_async_invoke has succeeded the caller receives the job's
\* handle, even if the status lookup or the local writes of
\* save_invocation_info fail.
C28_NoneOnlyIfNotStarted ==
    /\ (spc = "check1" /\ arn1 = NoneStr) => calls[Len(calls)] = StartRaised
    /\ (spc = "check2" /\ arn2 = NoneStr) => calls[Len(calls)] = StartRaised

\* ---------------------------------------------------- parse_url (utils.py)
JINA_RETRY_ATTEMPTS == 3
JINA_RETRY_DELAY == 5

notParseVars == <<monitorVars, pathVars, scriptVars, retryVars, watchVars,
                  imageVars>>

\* The urls a caller passes.
Urls == {"u1", "u2"}

\* What one request meets: an answer with a good status, an answer with a
\* bad status (raise_for_status raises HTTPError), or no answer at all
\* (requests.get raises Timeout or ConnectionError).  All three exceptions
\* are RequestException.
RequestOutcomes == {"ok", "HTTPError", "Timeout", "ConnectionError"}

\* The answer of the reader service to request n for a url: the page text
\* may differ from one request to the next.
Answer(url, n, o) ==
    [status |-> IF o = "ok" THEN 200 ELSE 500, text |-> <<url, n>>]

Request(n, o) == [ev |-> "get", n |-> n, o |-> o, secs |-> 0]
Sleep(secs) == [ev |-> "sleep", n |-> 0, o |-> "none", secs |-> secs]

LastAttempt_never(n) == FALSE

\* `if attempt == JINA_RETRY_ATTEMPTS - 1`
LastAttempt(n) == n = JINA_RETRY_ATTEMPTS - 1

\* parse_url(url): the for loop starts with attempt 0.
ParseCall(url) ==
    /\ ppc = "idle"
    /\ purl' = url
    /\ ppc' = "attempt"
    /\ attempt' = 0
    /\ response' = NoResponse
    /\ phist' = <<>>
    /\ presult' = "none"
    /\ pret' = NoResponse.text
    /\ UNCHANGED notParseVars

\* One pass of the try block: requests.get, raise_for_status, break; and the
\* except clause up to its raise or its sleep.
ParseAttempt(o) ==
    /\ ppc = "attempt"
    /\ phist' = Append(phist, Request(attempt, o))
    /\ response' = IF o \in {"ok", "HTTPError"}
                   THEN Answer(purl, attempt, o)
                   ELSE response
    /\ IF o = "ok"
       THEN ppc' = "return" /\ presult' = presult
       ELSE IF LastAttempt(attempt)
            THEN ppc' = "idle" /\ presult' = "ValueError"
            ELSE ppc' = "sleep" /\ presult' = presult
    /\ UNCHANGED <<purl, attempt, pret, notParseVars>>

\* time.sleep(JINA_RETRY_DELAY), then the next value of range(...); when the
\* range is used up the loop ends.
ParseSleep ==
    /\ ppc = "sleep"
    /\ phist' = Append(phist, Sleep(JINA_RETRY_DELAY))
    /\ attempt' = IF attempt + 1 < JINA_RETRY_ATTEMPTS THEN attempt + 1
                  ELSE attempt
    /\ ppc' = IF attempt + 1 < JINA_RETRY_ATTEMPTS THEN "attempt" ELSE "return"
    /\ UNCHANGED <<purl, response, presult, pret, notParseVars>>

\* return response.text
ParseReturn ==
    /\ ppc = "return"
    /\ ppc' = "idle"
    /\ IF response = NoResponse
       THEN presult' = "UnboundLocalError" /\ pret' = pret
       ELSE presult' = "returned" /\ pret' = response.text
    /\ UNCHANGED <<purl, attempt, response, phist, notParseVars>>

ParseInit ==
    /\ MonitorPinned
    /\ PathIdle
    /\ ScriptIdle
    /\ RetryIdle
    /\ WatchIdle
    /\ ParseIdle
    /\ ImageIdle

NextParse ==
    \/ \E url \in Urls : ParseCall(url)
    \/ \E o \in RequestOutcomes : ParseAttempt(o)
    \/ ParseSleep
    \/ ParseReturn

\* Calls of parse_url, one after the other.
SpecParse == ParseInit /\ [][NextParse]_vars

\* The positions of the requests in the history of the running call.
Gets == {i \in 1..Len(phist) : phist[i].ev = "get"}

\* C30: parse_url issues at most JINA_RETRY_ATTEMPTS requests; after each
\* failed attempt except the last it sleeps JINA_RETRY_DELAY seconds and
\* retries; it stops at the first successful response and returns its text;
\* when all attempts fail it raises ValueError after the last attempt without
\* a further sleep.
C30_BoundedRetryThenValueError ==
    /\ Cardinality(Gets) <= JINA_RETRY_ATTEMPTS
    /\ \A i \in Gets :
          /\ phist[i].o = "ok" =>
                /\ i = Len(phist)
                /\ ppc \in {"return", "idle"}
                /\ ppc = "idle" =>
                      presult = "returned" /\ pret = <<purl, phist[i].n>>
          /\ (phist[i].o # "ok" /\ phist[i].n < JINA_RETRY_ATTEMPTS - 1) =>
                /\ i = Len(phist) => ppc = "sleep"
                /\ i < Len(phist) =>
                      /\ phist[i + 1] = Sleep(JINA_RETRY_DELAY)
                      /\ i + 1 = Len(phist) => ppc = "attempt"
                      /\ i + 1 < Len(phist) =>
                            /\ phist[i + 2].ev = "get"
                            /\ phist[i + 2].n = phist[i].n + 1
          /\ (phist[i].o # "ok" /\ phist[i].n = JINA_RETRY_ATTEMPTS - 1) =>
                /\ i = Len(phist)
                /\ ppc = "idle"
                /\ presult = "ValueError"
    /\ presult = "ValueError" =>
          /\ Cardinality(Gets) = JINA_RETRY_ATTEMPTS
          /\ \A i \in Gets : phist[i].o # "ok"
    /\ presult \in {"none", "returned", "ValueError"}

C30_Witness ==
    /\ presult = "ValueError"
    /\ Cardinality(Gets) = JINA_RETRY_ATTEMPTS
    /\ Len(phist) = 2 * JINA_RETRY_ATTEMPTS - 1
    /\ phist[Len(phist)].ev = "get"

\* ------------------------------ generate_images (amazon_image_gen.py)
notImageVars == <<monitorVars, pathVars, scriptVars, retryVars, watchVars,
                  parseVars>>

\* inference_params a caller passes; json.dumps raises TypeError for a dict
\* holding a value JSON has no form for.
ImageParams == {"one_image", "two_images", "not_serialisable"}

\* What the service does with a request: a body with images, a body with an
\* "error" field, a body that is no JSON, a body whose read times out
\* (ReadTimeoutError, a BotoCoreError), or invoke_model raising ClientError
\* (which carries the service's response) or a BotoCoreError (which has
\* none, e.g. EndpointConnectionError).
ServiceAnswers == {"images", "error_field", "bad_json", "read_timeout",
                   "ClientError", "BotoCoreError"}

Step(name, ok) == [step |-> name, ok |-> ok]

\* except (BotoCoreError, ClientError)
IsAwsError(e) == e \in {"BotoCoreError", "ClientError"}

\* hasattr(e, "response")
HasResponse(e) == e = "ClientError"

SaveJsonError_io == "IOError"

\* _save_json_to_file turns the IOError of open/write into
\* ImageGenerationError.
SaveJsonError == "ImageGenerationError"

\* generate_images(inference_params): entry.  The files of earlier calls
\* stay in the output directory.
ImageCall(p, a) ==
    /\ ipc = "idle"
    /\ ipc' = "mkdir"
    /\ iparams' = p
    /\ iservice' = a
    /\ itrace' = <<>>
    /\ iexc' = "none"
    /\ iraised' = "none"
    /\ iret' = "none"
    /\ UNCHANGED <<ifiles, notImageVars>>

\* self.output_directory.mkdir(parents=True, exist_ok=True)
ImageMkdir(ok) ==
    /\ ipc = "mkdir"
    /\ itrace' = Append(itrace, Step("mkdir", ok))
    /\ IF ok
       THEN ipc' = "request" /\ iexc' = iexc
       ELSE ipc' = "except" /\ iexc' = "OSError"
    /\ UNCHANGED <<iparams, iservice, ifiles, iraised, iret, notImageVars>>

\* body_json = json.dumps(...); self._save_json_to_file(..., "request.json")
ImageSaveRequest(ok) ==
    /\ ipc = "request"
    /\ IF iparams = "not_serialisable"
       THEN /\ ipc' = "except"
            /\ iexc' = "TypeError"
            /\ UNCHANGED <<ifiles, itrace>>
       ELSE /\ itrace' = Append(itrace, Step("request.json", ok))
            /\ IF ok
               THEN /\ ifiles' = [ifiles EXCEPT !["request.json"] = iparams]
                    /\ ipc' = "invoke"
                    /\ iexc' = iexc
               ELSE /\ ipc' = "except"
                    /\ iexc' = SaveJsonError
                    /\ ifiles' = ifiles
    /\ UNCHANGED <<iparams, iservice, iraised, iret, notImageVars>>

\* response = self.bedrock_client.invoke_model(...)
ImageInvoke ==
    /\ ipc = "invoke"
    /\ itrace' = Append(itrace, Step("invoke_model", ~IsAwsError(iservice)))
    /\ IF IsAwsError(iservice)
       THEN ipc' = "except" /\ iexc' = iservice
       ELSE ipc' = "metadata" /\ iexc' = iexc
    /\ UNCHANGED <<iparams, iservice, ifiles, iraised, iret, notImageVars>>

\* self._save_json_to_file(response.get("ResponseMetadata", {}), ...)
ImageSaveMetadata(ok) ==
    /\ ipc = "metadata"
    /\ itrace' = Append(itrace, Step("response_metadata.json", ok))
    /\ IF ok
       THEN /\ ifiles' = [ifiles EXCEPT !["response_metadata.json"] = "metadata"]
            /\ ipc' = "body"
            /\ iexc' = iexc
       ELSE /\ ipc' = "except"
            /\ iexc' = SaveJsonError
            /\ ifiles' = ifiles
    /\ UNCHANGED <<iparams, iservice, iraised, iret, notImageVars>>

\* response_body = json.loads(response.get("body").read());
\* self._save_json_to_file(response_body, "response_body.json")
ImageSaveBody(ok) ==
    /\ ipc = "body"
    /\ IF iservice \in {"read_timeout", "bad_json"}
       THEN /\ itrace' = Append(itrace, Step("read body", FALSE))
            /\ ipc' = "except"
            /\ iexc' = IF iservice = "read_timeout" THEN "BotoCoreError"
                       ELSE "JSONDecodeError"
            /\ ifiles' = ifiles
       ELSE /\ itrace' = Append(itrace, Step("response_body.json", ok))
            /\ IF ok
               THEN /\ ifiles' = [ifiles EXCEPT !["response_body.json"] = iservice]
                    /\ ipc' = "return"
                    /\ iexc' = iexc
               ELSE /\ ipc' = "except"
                    /\ iexc' = SaveJsonError
                    /\ ifiles' = ifiles
    /\ UNCHANGED <<iparams, iservice, iraised, iret, notImageVars>>

\* The request id and a possible "error" field are logged;
\* return response_body
ImageReturn ==
    /\ ipc = "return"
    /\ ipc' = "idle"
    /\ iret' = iservice
    /\ UNCHANGED <<iparams, iservice, ifiles, itrace, iexc, iraised,
                   notImageVars>>

\* The except clauses: the first for BotoCoreError and ClientError, which
\* saves e.response when there is one; the second for every other Exception.
\* Both end with raise ImageGenerationError(...) from e.
ImageExcept ==
    /\ ipc = "except"
    /\ IF IsAwsError(iexc) /\ HasResponse(iexc)
       THEN /\ ipc' = "error_response"
            /\ UNCHANGED <<iexc, iraised>>
       ELSE /\ ipc' = "idle"
            /\ iexc' = "none"
            /\ iraised' = "ImageGenerationError"
    /\ UNCHANGED <<iparams, iservice, ifiles, itrace, iret, notImageVars>>

\* self._save_json_to_file(e.response, "error_response.json") inside the
\* except clause: what it raises leaves generate_images as it is.
ImageSaveErrorResponse(ok) ==
    /\ ipc = "error_response"
    /\ itrace' = Append(itrace, Step("error_response.json", ok))
    /\ ifiles' = IF ok
                 THEN [ifiles EXCEPT !["error_response.json"] = "error"]
                 ELSE ifiles
    /\ iraised' = IF ok THEN "ImageGenerationError" ELSE SaveJsonError
    /\ iexc' = "none"
    /\ ipc' = "idle"
    /\ UNCHANGED <<iparams, iservice, iret, notImageVars>>

ImageInit ==
    /\ MonitorPinned
    /\ PathIdle
    /\ ScriptIdle
    /\ RetryIdle
    /\ WatchIdle
    /\ ParseIdle
    /\ ImageIdle

NextImage ==
    \/ \E p \in ImageParams, a \in ServiceAnswers : ImageCall(p, a)
    \/ \E ok \in BOOLEAN : ImageMkdir(ok)
    \/ \E ok \in BOOLEAN : ImageSaveRequest(ok)
    \/ ImageInvoke
    \/ \E ok \in BOOLEAN : ImageSaveMetadata(ok)
    \/ \E ok \in BOOLEAN : ImageSaveBody(ok)
    \/ ImageReturn
    \/ ImageExcept
    \/ \E ok \in BOOLEAN : ImageSaveErrorResponse(ok)

\* Calls of generate_images on one output directory, one after the other.
SpecImage == ImageInit /\ [][NextImage]_vars

\* The steps of the running call that failed.
FailedSteps == {i \in 1..Len(itrace) : ~itrace[i].ok}

\* C22: generate_images raises ImageGenerationError and no other exception
\* type whenever any step fails (directory creation, saving request.json,
\* invoke_model, saving or parsing the response); on an AWS service error
\* that carries a response it first writes error_response.json; request.json
\* is always written before the remote call.
C22_OnlyImageGenerationError ==
    /\ iraised \in {"none", "ImageGenerationError"}
    /\ (ipc = "idle" /\ (FailedSteps # {} \/ iparams = "not_serialisable"))
          => (iraised = "ImageGenerationError" /\ iret = "none")
    /\ (ipc = "idle" /\ iraised = "none" /\ iparams # "none")
          => (FailedSteps = {} /\ iret = iservice)
    /\ \A i \in 1..Len(itrace) :
          /\ itrace[i].step = "invoke_model" =>
                /\ \E k \in 1..(i - 1) : itrace[k] = Step("request.json", TRUE)
                /\ ifiles["request.json"] = iparams
          /\ (itrace[i] = Step("invoke_model", FALSE) /\ HasResponse(iservice)
                /\ ipc = "idle") =>
                /\ Len(itrace) = i + 1
                /\ itrace[i + 1].step = "error_response.json"
                /\ itrace[i + 1].ok => ifiles["error_response.json"] = "error"

C22_Witness ==
    /\ ipc = "idle"
    /\ iraised = "ImageGenerationError"
    /\ iservice = "ClientError"
    /\ Len(itrace) = 4
    /\ itrace[3] = Step("invoke_model", FALSE)
    /\ itrace[4] = Step("error_response.json", TRUE)
    /\ ifiles["request.json"] = iparams

====
